---- MODULE Spec2Model ----
(***************************************************************************)
(* Model of the ball-eating task generator (src/src/generator.py,          *)
(* src/src/config.py): the size solver (_generate_solvable_sizes,          *)
(* _compute_eating_sequence, _verify_solvability), the placer              *)
(* (_generate_position, _generate_task_data) and the frame animator        *)
(* (_create_animation_frames).                                             *)
(*                                                                         *)
(* Python floats are modelled as exact rationals <<numerator, denominator>>*)
(* in lowest terms with a positive denominator.  random.uniform(a, b) is   *)
(* a + (b - a) * u for a draw u in [0, 1), here u = k / DrawDen.           *)
(***************************************************************************)
EXTENDS Integers, Sequences, FiniteSets, TLC

VARIABLES
    pc,                  \* position of the running operation
    config,              \* TaskConfig fields used by the generator
    num_red_balls,       \* argument of _generate_solvable_sizes
    initial_black_size,  \* sizes computed by the current/last attempt
    red_sizes,
    eating_sequence,
    fallback,            \* the greedy loop met "no valid candidate" (line 238)
    depth,               \* nesting depth of _generate_solvable_sizes (saturating observer)
    occupied,            \* _generate_task_data: circles placed so far
    red_positions,       \* _generate_task_data: placed targets with their ids
    tries,               \* _generate_position: iterations of the loop used so far
    exhausted,           \* some _generate_position call returned the centre fallback
    last,                \* how the latest _generate_position call returned
    frames               \* value returned by _create_animation_frames

vars == <<pc, config, num_red_balls, initial_black_size, red_sizes, eating_sequence,
          fallback, depth, occupied, red_positions, tries, exhausted, last, frames>>

sizeVars == <<num_red_balls, initial_black_size, red_sizes, eating_sequence, fallback, depth>>
placeVars == <<occupied, red_positions, tries, exhausted, last>>

(***************************************************************************)
(* Bounds of the model.                                                    *)
(***************************************************************************)
MaxTargets == 3          \* num_red_balls ranges over 1..MaxTargets
DrawDen == 4             \* random() takes the values 0/DrawDen .. (DrawDen-1)/DrawDen
MaxDepth == 3            \* the depth observer saturates here
PlaceTargets == 2        \* the placer is run on 1..PlaceTargets targets
PosCount == 4            \* number of distinct candidate draws of _generate_position

(***************************************************************************)
(* Exact rational arithmetic standing for Python float arithmetic.         *)
(***************************************************************************)
Abs(n) == IF n < 0 THEN -n ELSE n

RECURSIVE GCD(_, _)
GCD(a, b) == IF b = 0 THEN a ELSE GCD(b, a % b)

Q(n, d) ==
    LET g == GCD(Abs(n), Abs(d))
        s == IF d < 0 THEN -1 ELSE 1
    IN  <<(s * n) \div g, (s * d) \div g>>

QInt(n) == <<n, 1>>

\* sums, products and comparisons cancel common factors first, which keeps
\* the intermediate integers small
QAdd(a, b) ==
    LET g == GCD(a[2], b[2])
    IN  Q(a[1] * (b[2] \div g) + b[1] * (a[2] \div g), a[2] * (b[2] \div g))

QNeg(a) == <<-a[1], a[2]>>
QSub(a, b) == QAdd(a, QNeg(b))

QMul(a, b) ==
    LET g1 == GCD(Abs(a[1]), b[2])
        g2 == GCD(Abs(b[1]), a[2])
    IN  Q((a[1] \div g1) * (b[1] \div g2), (a[2] \div g2) * (b[2] \div g1))

QDiv(a, b) == QMul(a, Q(b[2], b[1]))

QLe(a, b) ==
    LET g == GCD(a[2], b[2])
    IN  a[1] * (b[2] \div g) <= b[1] * (a[2] \div g)

QLt(a, b) ==
    LET g == GCD(a[2], b[2])
    IN  a[1] * (b[2] \div g) < b[1] * (a[2] \div g)

QMax(a, b) == IF QLt(a, b) THEN b ELSE a
QMin(a, b) == IF QLt(b, a) THEN b ELSE a

\* random.uniform(a, b) with the underlying random() equal to u
Uniform(a, b, u) == QAdd(a, QMul(QSub(b, a), u))

Draws == {Q(k, DrawDen) : k \in 0..(DrawDen - 1)}

(***************************************************************************)
(* Configurations (src/src/config.py).  DefaultConfig carries the defaults *)
(* of TaskConfig; the others vary the fields the generator reads.          *)
(***************************************************************************)
DefaultConfig ==
    [min_ball_size |-> 20, max_ball_size |-> 150, growth_factor |-> Q(7, 5),
     image_size |-> <<512, 512>>, video_fps |-> 10, max_video_duration |-> QInt(10)]

SizeConfigs ==
    { DefaultConfig,
      [DefaultConfig EXCEPT !.growth_factor = QInt(2)],
      [DefaultConfig EXCEPT !.min_ball_size = 100] }

(***************************************************************************)
(* _verify_solvability and _compute_eating_sequence                        *)
(* Target ids are 0-based list indices; red_sizes is a TLA+ sequence, so   *)
(* the size of target i is red_sizes[i + 1].                               *)
(***************************************************************************)
SizeOf(sizes, i) == sizes[i + 1]

RECURSIVE Replay(_, _, _, _)
\* the loop of _verify_solvability from position k of the sequence on
Replay(current_size, sizes, seq, growth_factor) ==
    IF seq = <<>> THEN TRUE
    ELSE IF QLt(current_size, SizeOf(sizes, Head(seq))) THEN FALSE
    ELSE Replay(QMul(current_size, growth_factor), sizes, Tail(seq), growth_factor)

\* a verification that checks the length only and skips the replay
VerifyLengthOnly(initial, sizes, seq, growth_factor) == Len(seq) = Len(sizes)

VerifySolvability(initial, sizes, seq, growth_factor) ==
    IF Len(seq) # Len(sizes) THEN FALSE
    ELSE Replay(initial, sizes, seq, growth_factor)

\* a leftover loop that appends nothing
OrderingsNone(S) == {<<>>}

\* every order in which a Python set may be iterated (lines 255-256 append
\* the leftover ids in that order)
Orderings(S) ==
    {p \in [1..Cardinality(S) -> S] : \A a, b \in 1..Cardinality(S) : a # b => p[a] # p[b]}

\* a sort in ascending order: a smallest candidate comes first
SmallestOf(candidates, sizes) ==
    {i \in candidates : \A j \in candidates : QLe(SizeOf(sizes, i), SizeOf(sizes, j))}

\* the candidate the descending stable sort puts first: a largest one
\* (which of several equal ones depends on the set's iteration order)
LargestOf(candidates, sizes) ==
    {i \in candidates : \A j \in candidates : QLe(SizeOf(sizes, j), SizeOf(sizes, i))}

RECURSIVE GreedyLoop(_, _, _, _, _, _)
\* the while loop of _compute_eating_sequence followed by the leftover loop;
\* yields the set of possible outcomes [sequence, fallback]
GreedyLoop(current_size, remaining, sequence, sizes, growth_factor, fb) ==
    IF remaining = {} THEN {[sequence |-> sequence, fallback |-> fb]}
    ELSE
      LET eatable == {i \in remaining : QLe(SizeOf(sizes, i), current_size)}
          noCandidate == eatable = {}
          smallestTooBig == \A i \in remaining : QLt(current_size, SizeOf(sizes, i))
      IN  IF noCandidate /\ smallestTooBig
          THEN {[sequence |-> sequence \o p, fallback |-> TRUE] : p \in Orderings(remaining)}
          ELSE
            LET candidates == IF noCandidate THEN remaining ELSE eatable
            IN  UNION { GreedyLoop(QMul(current_size, growth_factor), remaining \ {i},
                                   Append(sequence, i), sizes, growth_factor,
                                   fb \/ noCandidate)
                        : i \in LargestOf(candidates, sizes) }

\* a greedy loop that never grows the eater (line 252 left out)
ComputeWithoutGrowth(initial, sizes, growth_factor) ==
    GreedyLoop(initial, 0..(Len(sizes) - 1), <<>>, sizes, QInt(1), FALSE)

ComputeEatingSequence(initial, sizes, growth_factor) ==
    GreedyLoop(initial, 0..(Len(sizes) - 1), <<>>, sizes, growth_factor, FALSE)

(***************************************************************************)
(* _generate_solvable_sizes, lines 143-200: backward construction,         *)
(* rescale, clamp, raise to the smallest target.                           *)
(***************************************************************************)
Reverse(s) == [i \in 1..Len(s) |-> s[Len(s) + 1 - i]]

RECURSIVE BackwardSizes(_, _, _)
\* lines 161-171: us[k] is the draw of iteration k; yields red_sizes_reverse
\* and the black size left after the loop
BackwardSizes(current_black_size, us, cfg) ==
    IF us = <<>> THEN [reds |-> <<>>, black |-> current_black_size]
    ELSE
      LET max_red_size == current_black_size
          min_red_size == QMax(QInt(cfg.min_ball_size), QMul(current_black_size, Q(3, 10)))
          red_size == Uniform(min_red_size, max_red_size, Head(us))
          rest == BackwardSizes(QDiv(current_black_size, cfg.growth_factor), Tail(us), cfg)
      IN  [reds |-> <<red_size>> \o rest.reds, black |-> rest.black]

ScaleAll(sizes, scale) == [i \in 1..Len(sizes) |-> QMul(sizes[i], scale)]

\* lines 178-183
ScaleUp(s, cfg) ==
    IF QLt(s.black, QInt(cfg.min_ball_size))
    THEN [black |-> QInt(cfg.min_ball_size),
          reds |-> ScaleAll(s.reds, QDiv(QInt(cfg.min_ball_size), s.black))]
    ELSE s

\* lines 185-190
ScaleDown(s, cfg) ==
    LET half == QMul(QInt(cfg.max_ball_size), Q(1, 2))
    IN  IF QLt(half, s.black)
        THEN LET scale == QDiv(half, s.black)
             IN  [black |-> QMul(s.black, scale), reds |-> ScaleAll(s.reds, scale)]
        ELSE s

\* a clamp that forgets the lower bound
ClampRedUpperOnly(size, cfg) == QMin(QInt(cfg.max_ball_size), size)

\* line 194
ClampRed(size, cfg) ==
    QMax(QInt(cfg.min_ball_size), QMin(QInt(cfg.max_ball_size), size))

\* line 195
ClampBlack(size, cfg) ==
    QMax(QInt(cfg.min_ball_size), QMin(QMul(QInt(cfg.max_ball_size), Q(1, 2)), size))

\* lines 193-195
Clamp(s, cfg) ==
    [black |-> ClampBlack(s.black, cfg),
     reds |-> [i \in 1..Len(s.reds) |-> ClampRed(s.reds[i], cfg)]]

RECURSIVE QMinOf(_)
QMinOf(sizes) ==
    IF Len(sizes) = 1 THEN sizes[1] ELSE QMin(sizes[1], QMinOf(Tail(sizes)))

\* lines 198-200
RaiseToSmallest(s, cfg) ==
    LET min_red_size == IF s.reds # <<>> THEN QMinOf(s.reds) ELSE QInt(cfg.min_ball_size)
    IN  IF QLt(s.black, min_red_size) THEN [s EXCEPT !.black = min_red_size] ELSE s

\* lines 148-200: uFinal is the draw of line 148, us the draws of line 167
ConstructSizes(cfg, uFinal, us) ==
    LET max_size == QInt(cfg.max_ball_size)
        final_black_size == Uniform(QMul(max_size, Q(3, 5)), QMul(max_size, Q(9, 10)), uFinal)
        back == BackwardSizes(final_black_size, us, cfg)
        forward == [black |-> back.black, reds |-> Reverse(back.reds)]
    IN  RaiseToSmallest(Clamp(ScaleDown(ScaleUp(forward, cfg), cfg), cfg), cfg)

(***************************************************************************)
(* SpecSizes: one call of _generate_solvable_sizes(num_red_balls).  One    *)
(* activation of the function draws, constructs, orders and verifies       *)
(* (lines 143-208) and then returns (line 213) or reaches the recursive    *)
(* call of line 211, which starts a fresh activation.  depth counts the    *)
(* nested activations, saturating at MaxDepth; the code keeps no counter.  *)
(***************************************************************************)
IdleSizes ==
    /\ initial_black_size = QInt(0)
    /\ red_sizes = <<>>
    /\ eating_sequence = <<>>
    /\ fallback = FALSE
    /\ depth = 0

IdlePlace ==
    /\ occupied = <<>>
    /\ red_positions = <<>>
    /\ tries = 0
    /\ exhausted = FALSE
    /\ last = "none"

InitSizes ==
    /\ pc = "solve"
    /\ config \in SizeConfigs
    /\ num_red_balls \in 1..MaxTargets
    /\ IdleSizes
    /\ IdlePlace
    /\ frames = <<>>

\* lines 143-208 of one activation, ending with the given verification result
Activation(verified) ==
    \E uFinal \in Draws, us \in [1..num_red_balls -> Draws] :
      \E s \in {ConstructSizes(config, uFinal, us)} :
        \E o \in ComputeEatingSequence(s.black, s.reds, config.growth_factor) :
          /\ VerifySolvability(s.black, s.reds, o.sequence, config.growth_factor) = verified
          /\ initial_black_size' = s.black
          /\ red_sizes' = s.reds
          /\ eating_sequence' = o.sequence
          /\ fallback' = o.fallback

\* verification passes: line 213
SolveReturn ==
    /\ pc = "solve"
    /\ Activation(TRUE)
    /\ pc' = "returned"
    /\ UNCHANGED <<config, num_red_balls, depth, placeVars, frames>>

\* verification fails: the activation is about to execute line 211
SolveFail ==
    /\ pc = "solve"
    /\ Activation(FALSE)
    /\ pc' = "recurse"
    /\ UNCHANGED <<config, num_red_balls, depth, placeVars, frames>>

\* line 211: the function calls itself with the same argument; nothing
\* guards the call
Recurse ==
    /\ pc = "recurse"
    /\ pc' = "solve"
    /\ depth' = IF depth < MaxDepth THEN depth + 1 ELSE depth
    /\ initial_black_size' = QInt(0)
    /\ red_sizes' = <<>>
    /\ eating_sequence' = <<>>
    /\ fallback' = FALSE
    /\ UNCHANGED <<config, num_red_balls, placeVars, frames>>

NextSizes == SolveReturn \/ SolveFail \/ Recurse

SpecSizes == InitSizes /\ [][NextSizes]_vars

(***************************************************************************)
(* SpecOrder: _compute_eating_sequence as a pure function, applied to an   *)
(* arbitrary initial size and an arbitrary list of target sizes.           *)
(***************************************************************************)
SizeValues == {QInt(20), QInt(28), Q(196, 5), QInt(60), QInt(150)}

GrowthFactors == {Q(7, 5), QInt(2)}

\* ids given to the targets by enumerate(red_sizes), lines 104-110
TargetIds(sizes) == {i - 1 : i \in DOMAIN sizes}

InitOrder ==
    /\ pc = "order"
    /\ \E g \in GrowthFactors : config = [DefaultConfig EXCEPT !.growth_factor = g]
    /\ num_red_balls \in 0..MaxTargets
    /\ initial_black_size \in SizeValues
    /\ red_sizes \in [1..num_red_balls -> SizeValues]
    /\ eating_sequence = <<>>
    /\ fallback = FALSE
    /\ depth = 0
    /\ IdlePlace
    /\ frames = <<>>

ComputeOrder ==
    /\ pc = "order"
    /\ \E o \in ComputeEatingSequence(initial_black_size, red_sizes, config.growth_factor) :
         /\ eating_sequence' = o.sequence
         /\ fallback' = o.fallback
    /\ pc' = "ordered"
    /\ UNCHANGED <<config, num_red_balls, initial_black_size, red_sizes, depth,
                   placeVars, frames>>

NextOrder == ComputeOrder

SpecOrder == InitOrder /\ [][NextOrder]_vars

(***************************************************************************)
(* SpecPlace: the placement part of _generate_task_data (lines 94-116)     *)
(* with _generate_position.  pc = "loop": a _generate_position call is in  *)
(* its for loop with tries iterations done; the call for the eater comes   *)
(* first, then one call per target.  pc = "placed": all balls are placed.  *)
(***************************************************************************)
MaxTries == 100

Buffer == 5

Inset == 10

PlaceConfigs ==
    { [c EXCEPT !.image_size = sz] :
        c \in {[DefaultConfig EXCEPT !.growth_factor = QInt(2)]},
        sz \in {<<512, 512>>, <<100, 100>>} }

\* the pairs of draws of lines 293-294 the model considers
PosDraws == {<<Q(j % 3, 3), Q((j \div 3) % 3, 3)>> : j \in 0..(PosCount - 1)}

\* the orders of sizes s that pass verification
VerifiedOrders(s, cfg) ==
    { c.sequence : c \in { o \in ComputeEatingSequence(s.black, s.reds, cfg.growth_factor) :
                             VerifySolvability(s.black, s.reds, o.sequence, cfg.growth_factor) } }

\* triples _generate_solvable_sizes returns (lines 89-92) when line 148 and
\* every line 167 draw u
SolvedInstances(cfg, n, us) ==
    UNION { { [black |-> s.black, reds |-> s.reds, order |-> o] : o \in VerifiedOrders(s, cfg) } :
            s \in {ConstructSizes(cfg, u, [k \in 1..n |-> u]) : u \in us} }

InitPlace ==
    /\ pc = "loop"
    /\ config \in PlaceConfigs
    /\ num_red_balls \in 1..PlaceTargets
    /\ \E i \in SolvedInstances(config, num_red_balls, {Q(1, 2)}) :
         /\ initial_black_size = i.black
         /\ red_sizes = i.reds
         /\ eating_sequence = i.order
    /\ fallback = FALSE
    /\ depth = 0
    /\ IdlePlace
    /\ frames = <<>>

QSquare(a) == QMul(a, a)

\* the loop over occupied that checks only its first circle
OverlapsFirstOnly(x, y, radius, occ) ==
    /\ occ # <<>>
    /\ QLt(QAdd(QSquare(QSub(x, occ[1].x)), QSquare(QSub(y, occ[1].y))),
           QSquare(QAdd(QAdd(radius, occ[1].radius), QInt(Buffer))))

\* lines 297-304: some placed circle is closer than the radii plus 5
\* (sqrt(d2) < s with s > 0 is d2 < s * s)
Overlaps(x, y, radius, occ) ==
    \E k \in 1..Len(occ) :
        QLt(QAdd(QSquare(QSub(x, occ[k].x)), QSquare(QSub(y, occ[k].y))),
            QSquare(QAdd(QAdd(radius, occ[k].radius), QInt(Buffer))))

\* size of the ball the current call places: the eater, then the targets
BallSize == IF occupied = <<>> THEN initial_black_size ELSE red_sizes[Len(occupied)]

Radius(size) == QDiv(size, QInt(2))

Margin(size) == QAdd(Radius(size), QInt(Inset))

\* lines 293-294
Candidate(size, extent, u) ==
    Uniform(Margin(size), QSub(QInt(extent), Margin(size)), u)

\* lines 98-102 and 106-116: record the returned position; the next call,
\* if any, starts its loop
Place(x, y) ==
    /\ occupied' = Append(occupied, [x |-> x, y |-> y, radius |-> Radius(BallSize)])
    /\ red_positions' =
         IF occupied = <<>> THEN red_positions
         ELSE Append(red_positions,
                     [x |-> x, y |-> y, size |-> BallSize, id |-> Len(red_positions)])
    /\ pc' = IF Len(occupied) = num_red_balls THEN "placed" ELSE "loop"
    /\ tries' = 0

\* one iteration of the loop of line 292 whose candidate overlaps
Reject ==
    /\ pc = "loop"
    /\ tries < MaxTries
    /\ TRUE = \E u \in PosDraws :
         Overlaps(Candidate(BallSize, config.image_size[1], u[1]),
                  Candidate(BallSize, config.image_size[2], u[2]), Radius(BallSize), occupied)
    /\ tries' = tries + 1
    /\ UNCHANGED <<pc, config, sizeVars, occupied, red_positions, exhausted, last, frames>>

\* one iteration whose candidate is clear: line 307
Accept ==
    /\ pc = "loop"
    /\ tries < MaxTries
    /\ \E u \in PosDraws :
         \E x \in {Candidate(BallSize, config.image_size[1], u[1])},
            y \in {Candidate(BallSize, config.image_size[2], u[2])} :
            /\ ~Overlaps(x, y, Radius(BallSize), occupied)
            /\ Place(x, y)
    /\ last' = "accepted"
    /\ UNCHANGED <<config, sizeVars, exhausted, frames>>

\* the loop ran out: line 310
CentreFallback ==
    /\ pc = "loop"
    /\ tries = MaxTries
    /\ Place(Q(config.image_size[1], 2), Q(config.image_size[2], 2))
    /\ last' = "centre"
    /\ exhausted' = TRUE
    /\ UNCHANGED <<config, sizeVars, frames>>

NextPlace == Reject \/ Accept \/ CentreFallback

SpecPlace == InitPlace /\ [][NextPlace]_vars

(***************************************************************************)
(* SpecFrames: _create_animation_frames(task_data).  A frame is the world  *)
(* state _render_frame draws at once: eater position and size and the ids  *)
(* of the targets still present.                                           *)
(***************************************************************************)
ReservedFrames == 8
HoldFrames == 4
MinPhaseFrames == 3
MinGrowFrames == 6
MaxGrowFrames == 12

Max(a, b) == IF a > b THEN a ELSE b
Min(a, b) == IF a < b THEN a ELSE b

\* int(): truncation toward zero
IntOf(a) == IF a[1] >= 0 THEN a[1] \div a[2] ELSE -((-a[1]) \div a[2])

\* lines 426 and 497
MaxFramesOf(cfg) == IntOf(QMul(cfg.max_video_duration, QInt(cfg.video_fps)))

\* lines 427-431
FramesPerAction(cfg, num_actions) ==
    Max(MinPhaseFrames, (MaxFramesOf(cfg) - ReservedFrames) \div (num_actions * 2))

\* line 441
MoveFramesPerBall(cfg, num_actions) == Max(MinPhaseFrames, FramesPerAction(cfg, num_actions))

\* line 443
GrowFramesOf(cfg, num_actions) ==
    Min(MaxGrowFrames, Max(MinGrowFrames, FramesPerAction(cfg, num_actions)))

Frame(x, y, size, remaining) == [x |-> x, y |-> y, size |-> size, remaining |-> remaining]

\* lines 434-438 and 490-494
Hold(x, y, size, remaining) == [i \in 1..HoldFrames |-> Frame(x, y, size, remaining)]

\* lines 452 and 473; i counts from 0
Progress(i, n) == IF n > 1 THEN Q(i, n - 1) ELSE QInt(1)

Lerp(from, to, progress) == QAdd(from, QMul(QSub(to, from), progress))

\* lines 451-459
MovePhase(x, y, tx, ty, size, remaining, n) ==
    [i \in 1..n |-> Frame(Lerp(x, tx, Progress(i - 1, n)), Lerp(y, ty, Progress(i - 1, n)),
                          size, remaining)]

\* an interpolation that runs from new_size down to old_size
GrowSizeReversed(old_size, new_size, i, n) ==
    QMin(Lerp(new_size, old_size, Progress(i, n)), new_size)

\* lines 473-478
GrowSize(old_size, new_size, i, n) ==
    QMin(Lerp(old_size, new_size, Progress(i, n)), new_size)

\* lines 472-483
GrowPhase(x, y, old_size, new_size, remaining, n) ==
    [i \in 1..n |-> Frame(x, y, GrowSize(old_size, new_size, i - 1, n), remaining)]

\* line 417 and 446: the target with the given id
RedBall(reds, id) == CHOOSE b \in {reds[k] : k \in 1..Len(reds)} : b.id = id

\* a removal that pops some element of the set (here the smallest id)
\* instead of the eaten one
RemovePopped(remaining, red_id) ==
    remaining \ {CHOOSE i \in remaining : \A j \in remaining : i <= j}

\* line 467: remaining_reds.remove(red_id)
RemoveRed(remaining, red_id) == remaining \ {red_id}

RECURSIVE EatAll(_, _, _, _, _, _, _, _, _)
\* lines 445-494: the loop over the rest of the eating sequence, then the
\* final hold
EatAll(seq, x, y, size, remaining, reds, growth_factor, move, grow) ==
    IF seq = <<>> THEN Hold(x, y, size, remaining)
    ELSE
      LET target == RedBall(reds, Head(seq))
          new_size == QMul(size, growth_factor)
          left == RemoveRed(remaining, Head(seq))
      IN  MovePhase(x, y, target.x, target.y, size, remaining, move)
            \o GrowPhase(target.x, target.y, size, new_size, left, grow)
            \o EatAll(Tail(seq), target.x, target.y, new_size, left, reds,
                      growth_factor, move, grow)

\* lines 408-494: the frames before the cap is applied
AllFrames(black, reds, seq, cfg) ==
    LET remaining_reds == {reds[k].id : k \in 1..Len(reds)}
    IN  Hold(black.x, black.y, black.size, remaining_reds)
          \o EatAll(seq, black.x, black.y, black.size, remaining_reds, reds,
                    cfg.growth_factor, MoveFramesPerBall(cfg, Len(seq)),
                    GrowFramesOf(cfg, Len(seq)))

\* indices i * len / max_frames, which never reach the last frame
SampleIndexNoLast(i, len, max_frames) == (i * len) \div max_frames

\* line 500: int(i * (len - 1) / (max_frames - 1)) for i >= 0, max_frames > 1
SampleIndex(i, len, max_frames) == (i * (len - 1)) \div (max_frames - 1)

\* lines 498-501; with max_frames = 1 line 500 divides by zero
DividesByZero(all, max_frames) == Len(all) > max_frames /\ max_frames = 1

Downsample(all, max_frames) ==
    IF Len(all) > max_frames
    THEN [i \in 1..Max(max_frames, 0) |-> all[SampleIndex(i - 1, Len(all), max_frames) + 1]]
    ELSE all

\* task_data['black_ball'] of the current state
BlackBall == [size |-> initial_black_size, x |-> occupied[1].x, y |-> occupied[1].y]

FrameConfigs ==
    { [c EXCEPT !.video_fps = f, !.max_video_duration = d] :
        c \in {DefaultConfig, [DefaultConfig EXCEPT !.growth_factor = QInt(2)]},
        f \in {1, 10},
        d \in {Q(1, 2), QInt(1), QInt(2), Q(5, 2), QInt(10)} }

\* where a layout puts ball k (0 the eater, k the target k - 1): a point of
\* the range lines 293-294 draw from
LayoutX(k, size, cfg) == Candidate(size, cfg.image_size[1], Q(k % 3, 3))
LayoutY(k, size, cfg) == Candidate(size, cfg.image_size[2], Q((k \div 3) % 3, 3))

\* a task_data as _generate_task_data returns it (lines 118-127)
InitFrames ==
    /\ pc = "animate"
    /\ config \in FrameConfigs
    /\ num_red_balls \in 1..MaxTargets
    /\ \E i \in SolvedInstances(config, num_red_balls, Draws) :
         /\ initial_black_size = i.black
         /\ red_sizes = i.reds
         /\ eating_sequence = i.order
         /\ occupied =
              [k \in 1..(num_red_balls + 1) |->
                 LET size == IF k = 1 THEN i.black ELSE i.reds[k - 1]
                 IN  [x |-> LayoutX(k - 1, size, config), y |-> LayoutY(k - 1, size, config),
                      radius |-> Radius(size)]]
         /\ red_positions =
              [k \in 1..num_red_balls |->
                 [x |-> LayoutX(k, i.reds[k], config), y |-> LayoutY(k, i.reds[k], config),
                  size |-> i.reds[k], id |-> k - 1]]
    /\ fallback = FALSE
    /\ depth = 0
    /\ tries = 0
    /\ exhausted = FALSE
    /\ last = "accepted"
    /\ frames = <<>>

\* the call returns its frames: line 503
AnimateReturn ==
    /\ pc = "animate"
    /\ \E all \in {AllFrames(BlackBall, red_positions, eating_sequence, config)} :
         /\ ~DividesByZero(all, MaxFramesOf(config))
         /\ frames' = Downsample(all, MaxFramesOf(config))
    /\ pc' = "returned"
    /\ UNCHANGED <<config, sizeVars, placeVars>>

\* line 500 raises ZeroDivisionError: nothing is returned
AnimateRaise ==
    /\ pc = "animate"
    /\ DividesByZero(AllFrames(BlackBall, red_positions, eating_sequence, config),
                     MaxFramesOf(config))
    /\ pc' = "raised"
    /\ UNCHANGED <<config, sizeVars, placeVars, frames>>

NextFrames == AnimateReturn \/ AnimateRaise

SpecFrames == InitFrames /\ [][NextFrames]_vars

(***************************************************************************)
(* Properties of the size solver.                                          *)
(***************************************************************************)
RECURSIVE QPow(_, _)
QPow(a, k) == IF k = 0 THEN QInt(1) ELSE QMul(a, QPow(a, k - 1))

\* lines 344-348: the size _render_final_state draws
FinalSize(black_size, growth_factor, num_red) ==
    QMul(black_size, QPow(growth_factor, num_red))

\* eater size when the target at position k of the order is consumed
EaterSizeAt(k) == QMul(initial_black_size, QPow(config.growth_factor, k - 1))

\* ids at the positions before k
ConsumedBefore(k) == {eating_sequence[j] : j \in 1..(k - 1)}

\* C1: in every returned triple, each target of the eating order is no larger
\* than the eater at the moment it is consumed (initial size times
\* growth_factor to the number of earlier consumptions).
C1_Solvable ==
    pc = "returned" =>
        \A k \in 1..Len(eating_sequence) :
            QLe(SizeOf(red_sizes, eating_sequence[k]), EaterSizeAt(k))

\* a returned order in which a target larger than the initial eater is eaten
C1_Witness ==
    /\ pc = "returned"
    /\ num_red_balls >= 2
    /\ \E k \in 2..Len(eating_sequence) :
          QLt(initial_black_size, SizeOf(red_sizes, eating_sequence[k]))

\* C2: for any initial size and any list of n sizes the computed sequence
\* holds each id of 0..n-1 exactly once, the ids enumerate() gives the
\* targets, also when the greedy loop stopped early.
C2_Permutation ==
    pc = "ordered" =>
        /\ Len(eating_sequence) = Len(red_sizes)
        /\ {eating_sequence[k] : k \in 1..Len(eating_sequence)} = TargetIds(red_sizes)
        /\ TargetIds(red_sizes) = 0..(num_red_balls - 1)

\* the greedy loop ate one target, then stopped early with two left over
C2_Witness ==
    /\ pc = "ordered"
    /\ fallback
    /\ Len(eating_sequence) = 3
    /\ QLe(SizeOf(red_sizes, eating_sequence[1]), initial_black_size)

InBounds(size) ==
    /\ QLe(QInt(config.min_ball_size), size)
    /\ QLe(size, QInt(config.max_ball_size))

\* C3: the returned initial eater size and every returned target size lie
\* in [min_size, max_size].
C3_SizesInBounds ==
    pc = "returned" =>
        /\ InBounds(initial_black_size)
        /\ \A i \in 1..Len(red_sizes) : InBounds(red_sizes[i])

\* returned sizes whose initial eater was raised to the smallest target,
\* above the 0.5 * max_size of the clamp
C3_Witness ==
    /\ pc = "returned"
    /\ QLt(QMul(QInt(config.max_ball_size), Q(1, 2)), initial_black_size)
    /\ initial_black_size = QMinOf(red_sizes)
    /\ QLt(QInt(config.min_ball_size), initial_black_size)

\* C6: the retries are bounded: once the budget of nested attempts is used
\* up, a failed verification is reported as a generation failure instead of
\* being retried.
C6_BoundedRetry ==
    [][(pc = "recurse" /\ depth >= MaxDepth) => pc' = "failed"]_vars

\* C9: the constructed sizes always pass verification: the greedy loop never
\* takes the no-eatable-target path and the function never calls itself.
C9_ConstructionAlwaysSolvable ==
    /\ ~fallback
    /\ pc # "recurse"
    /\ depth = 0

\* C10: in every returned order the target at position k is a largest one
\* among the unconsumed targets no larger than the eater after k-1
\* consumptions, and no step of a returned order came from the fallback.
C10_GreedyLargest ==
    pc = "returned" =>
        /\ ~fallback
        /\ \A k \in 1..Len(eating_sequence) :
             LET unconsumed == TargetIds(red_sizes) \ ConsumedBefore(k)
                 eatable == {i \in unconsumed : QLe(SizeOf(red_sizes, i), EaterSizeAt(k))}
             IN  /\ eating_sequence[k] \in eatable
                 /\ \A i \in eatable :
                       QLe(SizeOf(red_sizes, i), SizeOf(red_sizes, eating_sequence[k]))

\* a returned order whose first step had two eatable targets of different size
C10_Witness ==
    /\ pc = "returned"
    /\ \E i, j \in TargetIds(red_sizes) :
          /\ QLt(SizeOf(red_sizes, i), SizeOf(red_sizes, j))
          /\ QLe(SizeOf(red_sizes, j), initial_black_size)

(***************************************************************************)
(* Properties of the placer.                                               *)
(***************************************************************************)
\* circles a and b keep their centres at least the radii plus 5 apart
Clear(a, b) ==
    QLe(QSquare(QAdd(QAdd(a.radius, b.radius), QInt(Buffer))),
        QAdd(QSquare(QSub(a.x, b.x)), QSquare(QSub(a.y, b.y))))

PairwiseClear(occ) ==
    \A a, b \in 1..Len(occ) : a # b => Clear(occ[a], occ[b])

NewestClear(occ) ==
    \A a \in 1..(Len(occ) - 1) : Clear(occ[a], occ[Len(occ)])

AtCentre(c) ==
    /\ c.x = Q(config.image_size[1], 2)
    /\ c.y = Q(config.image_size[2], 2)

\* C7: while no call ran out of tries, every two placed balls are at least
\* the sum of their radii plus 5 apart; a position returned before the
\* budget ran out clears every circle placed earlier; the fallback returns
\* the canvas centre only after 100 rejected candidates.
C7_PlacementClear ==
    [][ /\ ~exhausted' => PairwiseClear(occupied')
        /\ (Len(occupied') > Len(occupied) /\ last' = "accepted") =>
              /\ tries < MaxTries
              /\ NewestClear(occupied')
        /\ (Len(occupied') > Len(occupied) /\ last' = "centre") =>
              /\ tries = MaxTries
              /\ AtCentre(occupied'[Len(occupied')]) ]_vars

\* eater and two targets placed, none by the fallback
C7_Witness ==
    /\ pc = "placed"
    /\ ~exhausted
    /\ Len(occupied) = 3

(***************************************************************************)
(* Properties of the frame animator.                                       *)
(***************************************************************************)
\* 8 + num_targets * (move_frames + grow_frames)
NaiveTotal ==
    ReservedFrames + Len(eating_sequence)
        * (MoveFramesPerBall(config, Len(eating_sequence))
             + GrowFramesOf(config, Len(eating_sequence)))

\* C4: for every (fps, max_duration) the call completes and returns at most
\* floor(fps * max_duration) frames, also for caps of 1 or 2 frames.
C4_FrameCap ==
    pc \in {"returned", "raised"} =>
        /\ pc = "returned"
        /\ Len(frames) <= MaxFramesOf(config)

\* C5: the first returned frame shows the eater at its initial position and
\* size with every target id remaining; the last returned frame shows no
\* remaining target.
C5_Endpoints ==
    (pc = "returned" /\ frames # <<>>) =>
        /\ frames[1] = Frame(occupied[1].x, occupied[1].y, initial_black_size,
                             TargetIds(red_sizes))
        /\ frames[Len(frames)].remaining = {}

\* frames returned after downsampling a sequence with two or more targets
C5_Witness ==
    /\ pc = "returned"
    /\ num_red_balls >= 2
    /\ Len(frames) >= 2
    /\ Len(frames) < NaiveTotal

\* number of targets already consumed in a frame
Consumed(f) == num_red_balls - Cardinality(f.remaining)

\* C8: over the returned sequence the eater's size never decreases from a
\* frame to the next, and a frame shown after k consumptions (the grow
\* phase of consumption k and what follows it) never exceeds the size before
\* consumption k times growth_factor, initial size * growth_factor^k.
C8_MonotonicGrowth ==
    pc = "returned" =>
        /\ \A i \in 1..(Len(frames) - 1) : QLe(frames[i].size, frames[i + 1].size)
        /\ \A i \in 1..Len(frames) :
              QLe(frames[i].size,
                  QMul(initial_black_size, QPow(config.growth_factor, Consumed(frames[i]))))

\* a returned sequence holding a frame strictly inside a grow phase
C8_Witness ==
    /\ pc = "returned"
    /\ \E i \in 2..Len(frames) :
          /\ Consumed(frames[i]) = 1
          /\ QLt(initial_black_size, frames[i].size)
          /\ QLt(frames[i].size, QMul(initial_black_size, config.growth_factor))

\* the frames before the cap is applied, for the task data of the state
Uncapped == AllFrames(BlackBall, red_positions, eating_sequence, config)

\* the original index of returned frame i (i from 1) when frames were sampled
SampledIndex(i) == SampleIndex(i - 1, NaiveTotal, MaxFramesOf(config))

\* C11: the call returns exactly min(naive_total, cap) frames, with
\* naive_total = 8 + num_targets * (move_frames + grow_frames) the length of
\* the uncapped sequence and cap = floor(max_duration * fps); when
\* naive_total > cap the returned frames are the original frames at strictly
\* increasing indices, the first index 0 and the last naive_total - 1.
C11_ExactFrameCount ==
    pc \in {"returned", "raised"} =>
        /\ pc = "returned"
        /\ Len(Uncapped) = NaiveTotal
        /\ Len(frames) = Min(NaiveTotal, MaxFramesOf(config))
        /\ NaiveTotal > MaxFramesOf(config) =>
              /\ \A i \in 1..Len(frames) : frames[i] = Uncapped[SampledIndex(i) + 1]
              /\ \A i \in 1..(Len(frames) - 1) : SampledIndex(i) < SampledIndex(i + 1)
              /\ frames # <<>> =>
                    /\ SampledIndex(1) = 0
                    /\ SampledIndex(Len(frames)) = NaiveTotal - 1

(***************************************************************************)
(* Further properties of the size solver and the animator.                 *)
(***************************************************************************)
\* C12: for every returned instance the eater's size after each
\* consumption, up to the final size initial_size * growth_factor^num_targets
\* that _render_final_state draws, stays within [min_size, max_size].
C12_EaterStaysInBounds ==
    pc = "returned" =>
        /\ \A k \in 0..Len(red_sizes) :
              InBounds(QMul(initial_black_size, QPow(config.growth_factor, k)))
        /\ InBounds(FinalSize(initial_black_size, config.growth_factor, Len(red_sizes)))

\* ids at the positions after k of the eating order
SuffixIds(k) == {eating_sequence[j] : j \in (k + 1)..Len(eating_sequence)}

IsSuffixSet(remaining) == \E k \in 0..Len(eating_sequence) : remaining = SuffixIds(k)

\* C13: in the returned sequence the remaining targets of every frame are
\* the ids of a suffix of the eating order and no frame shows a target the
\* frame before it lacks; in the sequence before the cap is applied at most
\* one target disappears from a frame to the next.
C13_RemainingIsSuffix ==
    pc = "returned" =>
        /\ \A i \in 1..Len(frames) : IsSuffixSet(frames[i].remaining)
        /\ \A i \in 1..(Len(frames) - 1) : frames[i + 1].remaining \subseteq frames[i].remaining
        /\ LET all == Uncapped
           IN  \A i \in 1..(Len(all) - 1) :
                  /\ all[i + 1].remaining \subseteq all[i].remaining
                  /\ Cardinality(all[i].remaining \ all[i + 1].remaining) <= 1

\* a returned sequence of a three-target instance, not eaten in id order,
\* with frames showing two and frames showing one remaining target
C13_Witness ==
    /\ pc = "returned"
    /\ num_red_balls = 3
    /\ eating_sequence # <<0, 1, 2>>
    /\ \E i, j \in 1..Len(frames) :
          /\ Cardinality(frames[i].remaining) = 2
          /\ Cardinality(frames[j].remaining) = 1

PassesVerification(seq) ==
    VerifySolvability(initial_black_size, red_sizes, seq, config.growth_factor)

\* C14: the computed order passes _verify_solvability if and only if some
\* permutation of the target ids passes it for the same sizes.
C14_GreedyComplete ==
    pc = "ordered" =>
        (PassesVerification(eating_sequence)
           <=> \E p \in Orderings(TargetIds(red_sizes)) : PassesVerification(p))

\* a computed order that passes although the targets taken in list order
\* do not, and whose last target is larger than the initial eater
C14_Witness ==
    /\ pc = "ordered"
    /\ num_red_balls >= 2
    /\ PassesVerification(eating_sequence)
    /\ ~PassesVerification([k \in 1..num_red_balls |-> k - 1])
    /\ QLt(initial_black_size, SizeOf(red_sizes, eating_sequence[num_red_balls]))

====
